---- MODULE Spec2Model ----
(***************************************************************************)
(* Model of src/src/utils/captcha/two_captcha.py (class Captcha).          *)
(*                                                                         *)
(* The program is single-threaded and synchronous.  Its persistent state   *)
(* is the solver configuration and the two directories it writes to        *)
(* (temp/ and solved_captchas/).  Every public method takes the browser    *)
(* session (driver) as an argument, so the page is an input of each call   *)
(* and the model keeps the page as the call left it.  The 2Captcha client  *)
(* and the browser are external: what they answer is a nondeterministic    *)
(* input of the call.  Debug logging is not modelled.                      *)
(***************************************************************************)
EXTENDS Integers, Sequences, FiniteSets, TLC

VARIABLES
    enabled,               \* self.enabled
    save_solved_captchas,  \* self.log.config["save_solved_captchas"]
    fs,                    \* the files under temp/ and solved_captchas/
    pc,                    \* "idle", "input" (blocked in input()), "returned"
    call,                  \* the call in progress or just returned, and its arguments
    page,                  \* the driver's page as the call left it
    ret,                   \* what the call returned or raised
    handler,               \* what the kind's handler returned or raised, when one ran
    wrap,                  \* the invocation of _solve_captcha made by the call, if any
    events                 \* external operations the call performed, in order

vars == <<enabled, save_solved_captchas, fs, pc, call, page, ret, handler, wrap, events>>

(***************************************************************************)
(* Bounds.                                                                 *)
(***************************************************************************)
CodeLen == 2        \* length of the codes the Solving Service answers
MaxArchived == 1    \* files kept under solved_captchas/ in one run

Alphabet == {"a", "\\"}

RECURSIVE SeqsOfLen(_)
SeqsOfLen(n) ==
    IF n = 0 THEN {<<>>}
    ELSE {Append(s, c) : s \in SeqsOfLen(n - 1), c \in Alphabet}

Codes == SeqsOfLen(CodeLen)

(***************************************************************************)
(* Python values that cross the methods' boundaries.                       *)
(***************************************************************************)
NoMsg == [type |-> "none", cls |-> "", text |-> "", captchaId |-> "", code |-> <<>>]
StrMsg(s) == [type |-> "str", cls |-> "", text |-> s, captchaId |-> "", code |-> <<>>]
ExcMsg(cls, text) ==
    [type |-> "exc", cls |-> cls, text |-> text, captchaId |-> "", code |-> <<>>]
DictMsg(id, code) ==
    [type |-> "dict", cls |-> "", text |-> "", captchaId |-> id, code |-> code]

None == [tag |-> "None", success |-> FALSE, status |-> "", msg |-> NoMsg]
Tuple3(success, status, msg) ==
    [tag |-> "tuple3", success |-> success, status |-> status, msg |-> msg]
Tuple2(success, status) ==
    [tag |-> "tuple2", success |-> success, status |-> status, msg |-> NoMsg]
\* a bare dict, as the 2Captcha client returns it
Dict(msg) == [tag |-> "dict", success |-> FALSE, status |-> "", msg |-> msg]

Returned(v) == [raised |-> "", val |-> v]
Raised(cls) == [raised |-> cls, val |-> None]
NoResult == [raised |-> "", val |-> None]

Ev(name, arg) == [name |-> name, arg |-> arg]

\* repr() of a str without single quotes: backslashes doubled, single-quoted
RECURSIVE ReprBody(_)
ReprBody(s) ==
    IF s = <<>> THEN ""
    ELSE (IF Head(s) = "\\" THEN "\\\\" ELSE Head(s)) \o ReprBody(Tail(s))

\* str(msg) as the f-string of solve formats it
Str(m) ==
    CASE m.type = "str" -> m.text
      [] m.type = "exc" -> m.text
      [] m.type = "dict" ->
            "{'captchaId': '" \o m.captchaId \o "', 'code': '" \o ReprBody(m.code) \o "'}"
      [] OTHER -> ""

(***************************************************************************)
(* The exceptions the calls meet, with the classes they derive from.       *)
(***************************************************************************)
Bases(cls) ==
    CASE cls = "TimeoutException" -> {"TimeoutException", "SolverExceptions", "Exception", "BaseException"}
      [] cls = "ValidationException" -> {"ValidationException", "SolverExceptions", "Exception", "BaseException"}
      [] cls = "NetworkException" -> {"NetworkException", "Exception", "BaseException"}
      [] cls = "ApiException" -> {"ApiException", "Exception", "BaseException"}
      [] cls = "KeyboardInterrupt" -> {"KeyboardInterrupt", "BaseException"}
      [] OTHER -> {cls, "Exception", "BaseException"}

IsInstance(cls, base) == base \in Bases(cls)

SolveExceptions ==
    {"TimeoutException", "NetworkException", "ApiException", "ValidationException",
     "KeyboardInterrupt"}

CaptchaId == "7001"

\* What one call of the Solving Service does: raise, or answer {captchaId, code}.
Outcomes ==
    {[exc |-> e, text |-> "2captcha: " \o e, result |-> NoMsg] : e \in SolveExceptions}
    \cup {[exc |-> "", text |-> "", result |-> DictMsg(CaptchaId, c)] : c \in Codes}

NoOutcome == [exc |-> "", text |-> "", result |-> NoMsg]

(***************************************************************************)
(* The browser session.                                                    *)
(***************************************************************************)
CurrentUrl == "https://current"
PageUrls == {"", "https://page"}

Drivers ==
    [img : BOOLEAN,                                   \* ctl00_ContentPlaceHolder1_CaptchaImg
     input : {"absent", "ok", "not_interactable"},    \* ctl00_ContentPlaceHolder1_txtVerificationCode
     sitekey : BOOLEAN,                               \* an element with [data-sitekey]
     response : BOOLEAN,                              \* g-recaptcha-response
     inputValue : {<<>>},
     responseValue : {<<>>}]

NoPage ==
    [img |-> FALSE, input |-> "absent", sitekey |-> FALSE, response |-> FALSE,
     inputValue |-> <<>>, responseValue |-> <<>>]

\* selenium_common.is_elem_present: the element, or False
is_elem_present(driver, id) ==
    CASE id = "ctl00_ContentPlaceHolder1_CaptchaImg" -> driver.img
      [] id = "ctl00_ContentPlaceHolder1_txtVerificationCode" -> driver.input /= "absent"
      [] id = "[data-sitekey]" -> driver.sitekey
      [] OTHER -> FALSE

\* WebElement.send_keys: types into the element, or raises when it cannot
send_keys(driver, keys) ==
    IF driver.input = "ok"
    THEN [exc |-> "", page |-> [driver EXCEPT !.inputValue = @ \o keys],
          events |-> <<Ev("send_keys", keys)>>]
    ELSE [exc |-> "ElementNotInteractableException", page |-> driver,
          events |-> <<Ev("send_keys", keys)>>]

(***************************************************************************)
(* The script of submit_captcha_response and what the browser makes of it. *)
(***************************************************************************)
ScriptPrefix ==
    <<"a", "r", "g", "u", "m", "e", "n", "t", "s", "[", "0", "]", ".",
      "v", "a", "l", "u", "e", "=", "\"">>

\* f'arguments[0].value="{result["code"]}"'
ResponseScript(code) == ScriptPrefix \o code \o <<"\"">>

\* The JavaScript string literal whose body starts at s[i]: the value it denotes,
\* or a syntax error when it is unterminated or text follows the closing quote.
RECURSIVE JsStringLiteral(_, _, _)
JsStringLiteral(s, i, acc) ==
    IF i > Len(s) THEN [ok |-> FALSE, value |-> <<>>]
    ELSE IF s[i] = "\"" THEN [ok |-> i = Len(s), value |-> acc]
    ELSE IF s[i] = "\\"
         THEN IF i + 1 > Len(s) THEN [ok |-> FALSE, value |-> <<>>]
              ELSE JsStringLiteral(s, i + 2, Append(acc, s[i + 1]))
    ELSE JsStringLiteral(s, i + 1, Append(acc, s[i]))

\* driver.execute_script(script, element): assigns the literal to element.value
execute_script(driver, script) ==
    LET lit == JsStringLiteral(script, Len(ScriptPrefix) + 1, <<>>)
    IN  IF lit.ok
        THEN [exc |-> "", page |-> [driver EXCEPT !.responseValue = lit.value],
              events |-> <<Ev("execute_script", script)>>]
        ELSE [exc |-> "JavascriptException", page |-> driver,
              events |-> <<Ev("execute_script", script)>>]

(***************************************************************************)
(* The file system.                                                        *)
(***************************************************************************)
TempPath == [dir |-> "temp", name |-> <<"normal_captcha">>]
ArchivePath(name) == [dir |-> "solved_captchas", name |-> name]
Archived(files) == {f \in files : f.dir = "solved_captchas"}

\* open(path, "wb") and write
write_file(files, path) == files \cup {path}
\* os.rename
rename(files, src, dst) == (files \ {src}) \cup {dst}
\* utils.remove_files
remove_files(files, paths) == files \ paths

(***************************************************************************)
(* Captcha._solve_captcha.  The two callbacks are closures; the model      *)
(* passes what each would do if called (solved: what solve_callback()      *)
(* raises or returns; applied: what result_callback(result) does to the    *)
(* page of driver), and the wrapper decides which of them happen.          *)
(***************************************************************************)
NoWrap ==
    [called |-> FALSE, solved |-> NoOutcome, applied |-> FALSE, applied_exc |-> "",
     ret |-> None, before |-> NoPage, page |-> NoPage, events |-> <<>>]

Wrapped(driver, solved, applied, appliedExc, value, after, evs) ==
    [called |-> TRUE, solved |-> solved, applied |-> applied, applied_exc |-> appliedExc,
     ret |-> value, before |-> driver, page |-> after,
     events |-> <<Ev("solve_callback", <<>>)>> \o evs \o <<Ev("return", <<>>)>>]

\* a wrapper that applies the result whatever the solve did
_solve_captcha_always_applies(driver, solved, applied) ==
    LET e == ExcMsg(solved.exc, solved.text)
        called == <<Ev("result_callback", solved.result.code)>> \o applied.events
        value == IF solved.exc = "" THEN Tuple3(TRUE, "SOLVED", solved.result)
                 ELSE Tuple3(FALSE, "UNKNOWN_ERROR", e)
    IN  Wrapped(driver, solved, TRUE, applied.exc, value, applied.page, called)

_solve_captcha(driver, solved, applied) ==
    LET e == ExcMsg(solved.exc, solved.text)
        failed(status) == Wrapped(driver, solved, FALSE, "", Tuple3(FALSE, status, e), driver, <<>>)
        called == <<Ev("result_callback", solved.result.code)>> \o applied.events
    IN  IF solved.exc = ""
        THEN \* else: result_callback(result); result = (True, "SOLVED", result)
             IF applied.exc = ""
             THEN Wrapped(driver, solved, TRUE, "",
                          Tuple3(TRUE, "SOLVED", solved.result), applied.page, called)
             \* result_callback raised: finally returns result, still the raw answer
             ELSE Wrapped(driver, solved, TRUE, applied.exc,
                          Dict(solved.result), applied.page, called)
        ELSE IF IsInstance(solved.exc, "TimeoutException") THEN failed("TIMEOUT")
        ELSE IF IsInstance(solved.exc, "NetworkException") THEN failed("NETWORK_ERROR")
        ELSE IF IsInstance(solved.exc, "ApiException") THEN failed("API_ERROR")
        ELSE IF IsInstance(solved.exc, "Exception") THEN failed("UNKNOWN_ERROR")
        \* no except clause matches: finally returns result, still None
        ELSE Wrapped(driver, solved, FALSE, "", None, driver, <<>>)

\* the keys of the dict the 2Captcha client answers
DictKeys == {"captchaId", "code"}

\* success, status, msg = <value>: the exception the unpacking raises, "" if none
Unpack3(v) ==
    CASE v.tag = "tuple3" -> ""
      [] v.tag = "dict" ->
            IF Cardinality(DictKeys) = Len(<<"success", "status", "msg">>)
            THEN "" ELSE "ValueError"
      [] OTHER -> "TypeError"

(***************************************************************************)
(* Captcha.save_captcha                                                    *)
(***************************************************************************)
save_captcha(driver, files, captcha_image_filepath) ==
    LET captcha_element == is_elem_present(driver, "ctl00_ContentPlaceHolder1_CaptchaImg")
        captcha_input == is_elem_present(driver, "ctl00_ContentPlaceHolder1_txtVerificationCode")
    IN  IF captcha_element /\ captcha_input
        THEN [captcha_input |-> TRUE, files |-> write_file(files, captcha_image_filepath)]
        ELSE [captcha_input |-> FALSE, files |-> files]

(***************************************************************************)
(* Captcha.normal_captcha                                                  *)
(***************************************************************************)
Done(result, after, files, w) ==
    [result |-> result, page |-> after, files |-> files, wrap |-> w, events |-> w.events]

\* a handler that archives by copying the temp file instead of renaming it
normal_captcha_copies(driver, files, page_url, solved) ==
    LET saved == save_captcha(driver, files, TempPath)
        w == _solve_captcha(driver, solved, send_keys(driver, solved.result.code))
        unpacked == Unpack3(w.ret)
    IN  IF saved.captcha_input
        THEN IF unpacked /= ""
             THEN Done(Raised(unpacked), w.page, saved.files, w)
             ELSE IF save_solved_captchas /\ w.ret.success /\ w.ret.status = "SOLVED"
             THEN Done(Returned(w.ret), w.page,
                       write_file(saved.files, ArchivePath(w.ret.msg.code)), w)
             ELSE Done(Returned(w.ret), w.page, remove_files(saved.files, {TempPath}), w)
        ELSE Done(Returned(Tuple3(FALSE, "NO CAPTCHA FOUND IN", StrMsg(page_url))),
                  driver, saved.files, NoWrap)

normal_captcha(driver, files, page_url, solved) ==
    LET saved == save_captcha(driver, files, TempPath)
        w == _solve_captcha(driver, solved, send_keys(driver, solved.result.code))
        unpacked == Unpack3(w.ret)
    IN  IF saved.captcha_input
        THEN IF unpacked /= ""
             THEN Done(Raised(unpacked), w.page, saved.files, w)
             ELSE IF save_solved_captchas /\ w.ret.success /\ w.ret.status = "SOLVED"
             THEN Done(Returned(w.ret), w.page,
                       rename(saved.files, TempPath, ArchivePath(w.ret.msg.code)), w)
             ELSE Done(Returned(w.ret), w.page, remove_files(saved.files, {TempPath}), w)
        ELSE Done(Returned(Tuple3(FALSE, "NO CAPTCHA FOUND IN", StrMsg(page_url))),
                  driver, saved.files, NoWrap)

(***************************************************************************)
(* Captcha.recaptcha_v2                                                    *)
(***************************************************************************)
submit_captcha_response(driver, result) ==
    IF driver.response
    THEN LET x == execute_script(driver, ResponseScript(result.code))
         IN  [x EXCEPT !.events = <<Ev("find_element", <<"g-recaptcha-response">>)>> \o @]
    ELSE [exc |-> "NoSuchElementException", page |-> driver,
          events |-> <<Ev("find_element", <<"g-recaptcha-response">>)>>]

\* a handler that does not look for the site key before solving
recaptcha_v2_unchecked(driver, files, page_url, solved) ==
    LET w == _solve_captcha(driver, solved, submit_captcha_response(driver, solved.result))
    IN  Done(Returned(w.ret), w.page, files, w)

recaptcha_v2(driver, files, page_url, solved) ==
    LET site_key_element == is_elem_present(driver, "[data-sitekey]")
        w == _solve_captcha(driver, solved, submit_captcha_response(driver, solved.result))
    IN  IF site_key_element
        THEN Done(Returned(w.ret), w.page, files, w)
        ELSE Done(Returned(Tuple3(FALSE, "NO RECAPTCHA_V2 FOUND IN", StrMsg(page_url))),
                  driver, files, NoWrap)

(***************************************************************************)
(* Captcha.solve, the branch taken when solving is enabled or forced.      *)
(***************************************************************************)
CaptchaTypes == {"", "RECAPTCHA_V2", "normal_captcha", "turnstile"}

\* str.lower
Lower(s) == IF s = "RECAPTCHA_V2" THEN "recaptcha_v2" ELSE s

\* x or d
OrElse(x, d) == IF x = "" THEN d ELSE x

NoHandler == [name |-> "", result |-> NoResult]

Solved(result, h, name) ==
    [result |-> result, page |-> h.page, files |-> h.files, wrap |-> h.wrap,
     events |-> h.events, handler |-> [name |-> name, result |-> h.result]]

\* the tail of the branch: unpack what the handler gave, format, return
solve_return(h, name) ==
    LET unpacked == Unpack3(h.result.val)
        v == h.result.val
    IN  IF h.result.raised /= "" THEN Solved(Raised(h.result.raised), h, name)
        ELSE IF unpacked /= "" THEN Solved(Raised(unpacked), h, name)
        ELSE Solved(Returned(Tuple2(v.success, v.status \o ": " \o Str(v.msg))), h, name)

\* a dispatch whose second test is a plain else after the normal_captcha test
solve_enabled_defaulting(driver, files, captcha_type, page_url, solved) ==
    LET url == OrElse(page_url, CurrentUrl)
        type == OrElse(captcha_type, "recaptcha_v2")
    IN  IF Lower(type) = "normal_captcha"
        THEN solve_return(normal_captcha(driver, files, url, solved), "normal_captcha")
        ELSE solve_return(recaptcha_v2(driver, files, url, solved), "recaptcha_v2")

solve_enabled(driver, files, captcha_type, page_url, solved) ==
    LET url == OrElse(page_url, CurrentUrl)
        type == OrElse(captcha_type, "recaptcha_v2")
        initial == Done(Returned(Tuple3(FALSE, "", StrMsg(""))), driver, files, NoWrap)
    IN  IF Lower(type) = "recaptcha_v2"
        THEN solve_return(recaptcha_v2(driver, files, url, solved), "recaptcha_v2")
        ELSE IF Lower(type) = "normal_captcha"
        THEN solve_return(normal_captcha(driver, files, url, solved), "normal_captcha")
        ELSE [solve_return(initial, "") EXCEPT !.handler = NoHandler]

(***************************************************************************)
(* Captcha.solve, the manual branch after input() returns.  value is what  *)
(* the verification-code field holds when the human presses enter.         *)
(***************************************************************************)
\* a manual branch that reports whether the verification-code field was there
solve_manual_reports_field(driver, files, captcha_type) ==
    LET type == OrElse(captcha_type, "recaptcha_v2")
        captcha_input == is_elem_present(driver, "ctl00_ContentPlaceHolder1_txtVerificationCode")
        saved == save_captcha(driver, files, ArchivePath(driver.inputValue))
    IN  [result |-> Returned(Tuple2(captcha_input, "Manually solved CAPTCHA")),
         files |-> IF save_solved_captchas /\ Lower(type) = "normal_captcha" /\ captcha_input
                   THEN saved.files ELSE files]

solve_manual(driver, files, captcha_type) ==
    LET type == OrElse(captcha_type, "recaptcha_v2")
        captcha_input == is_elem_present(driver, "ctl00_ContentPlaceHolder1_txtVerificationCode")
        saved == save_captcha(driver, files, ArchivePath(driver.inputValue))
    IN  [result |-> Returned(Tuple2(TRUE, "Manually solved CAPTCHA")),
         files |-> IF save_solved_captchas /\ Lower(type) = "normal_captcha" /\ captcha_input
                   THEN saved.files ELSE files]

(***************************************************************************)
(* The Turnstile path.                                                     *)
(***************************************************************************)
\* the methods class Captcha defines, with their parameters after self
Methods ==
    [_solve_captcha |-> <<"solve_callback", "result_callback", "debug_enabled">>,
     save_captcha |-> <<"driver", "captcha_image_filepath">>,
     normal_captcha |-> <<"driver", "page_url", "debug_enabled">>,
     recaptcha_v2 |-> <<"driver", "page_url", "debug_enabled">>,
     get_captcha_params |-> <<"driver">>,
     cf_solver_captcha |-> <<"params", "debug_enabled">>,
     send_token_callback |-> <<"driver", "token">>,
     cf_final_message |-> <<"driver", "locator">>,
     cloudflare_turnstile |-> <<"driver", "debug_enabled">>,
     solve |-> <<"driver", "captcha_type", "page_url", "force_enable", "force_debug">>]

\* self.<name>(args): the exception the call itself raises before the body runs
CallError(name, args) ==
    IF name \notin DOMAIN Methods THEN "AttributeError"
    ELSE IF Len(args) /= Len(Methods[name]) THEN "TypeError"
    ELSE ""

\* get_captcha_params: the intercepted parameters, or None (intercepted = FALSE)
get_captcha_params(intercepted) ==
    [params |-> intercepted,
     events |-> <<Ev("refresh", <<>>), Ev("execute_script", <<"intercept_script">>),
                  Ev("get_log", <<"browser">>), Ev("print", <<"Parameters received">>)>>]

\* cf_solver_captcha: the token, or None (<<>>) when the solver raised
cf_solver_captcha(solved) ==
    IF solved.exc = "" \/ ~IsInstance(solved.exc, "Exception")
    THEN [raised |-> solved.exc, token |-> solved.result.code,
          events |-> <<Ev("solver.turnstile", <<>>)>>]
    ELSE [raised |-> "", token |-> <<>>,
          events |-> <<Ev("solver.turnstile", <<>>), Ev("print", <<"An error occurred">>)>>]

Turned(raised, evs) == [result |-> IF raised = "" THEN Returned(None) ELSE Raised(raised),
                        events |-> evs]

cloudflare_turnstile(intercepted, solved, message_shown) ==
    LET got == get_captcha_params(intercepted)
        tok == cf_solver_captcha(solved)
        sent == got.events \o tok.events
    IN  IF CallError("get_capture_params", <<"driver">>) /= ""
        THEN Turned(CallError("get_capture_params", <<"driver">>), <<>>)
        ELSE IF ~got.params
        THEN Turned("", got.events \o
                 <<Ev("print", <<"Cloudflare turnstile: failed to intercept parameters">>)>>)
        ELSE IF tok.raised /= "" THEN Turned(tok.raised, sent)
        ELSE IF tok.token = <<>>
        THEN Turned("", sent \o <<Ev("print", <<"Failed to solve Cloudflare turnstile">>)>>)
        ELSE IF CallError("send_token_callback", <<"token">>) /= ""
        THEN Turned(CallError("send_token_callback", <<"token">>), sent)
        ELSE IF ~message_shown
        THEN Turned("TimeoutException", sent \o <<Ev("cfCallback", tok.token)>>)
        ELSE Turned("", sent \o <<Ev("cfCallback", tok.token), Ev("print", <<"message">>)>>)

(***************************************************************************)
(* The state machine.                                                      *)
(***************************************************************************)
NoCall ==
    [op |-> "", captcha_type |-> "", page_url |-> "", force_enable |-> FALSE,
     intercepted |-> FALSE, driver |-> NoPage]

Init ==
    /\ enabled \in BOOLEAN
    /\ save_solved_captchas \in BOOLEAN
    /\ fs = {}
    /\ pc = "idle"
    /\ call = NoCall
    /\ page = NoPage
    /\ ret = NoResult
    /\ handler = NoHandler
    /\ wrap = NoWrap
    /\ events = <<>>

Room(files) == Cardinality(Archived(files)) <= MaxArchived

\* solve(driver, captcha_type, page_url, force_enable) with solving enabled or forced
Solve ==
    /\ pc = "idle"
    /\ \E driver \in Drivers, captcha_type \in CaptchaTypes, page_url \in PageUrls,
          force_enable \in BOOLEAN, solved \in Outcomes :
          /\ enabled \/ force_enable
          /\ \E r \in {solve_enabled(driver, fs, captcha_type, page_url, solved)} :
                /\ Room(r.files)
                /\ fs' = r.files
                /\ page' = r.page
                /\ ret' = r.result
                /\ handler' = r.handler
                /\ wrap' = r.wrap
                /\ events' = r.events
          /\ call' = [op |-> "solve", captcha_type |-> captcha_type, page_url |-> page_url,
                      force_enable |-> force_enable, intercepted |-> FALSE,
                      driver |-> driver]
    /\ pc' = "returned"
    /\ UNCHANGED <<enabled, save_solved_captchas>>

\* solve(...) with solving disabled and not forced: up to input("Press enter to proceed: ")
SolveBlock ==
    /\ pc = "idle"
    /\ \E driver \in Drivers, captcha_type \in CaptchaTypes, page_url \in PageUrls,
          force_enable \in BOOLEAN :
          /\ ~(enabled \/ force_enable)
          /\ call' = [op |-> "solve", captcha_type |-> captcha_type, page_url |-> page_url,
                      force_enable |-> force_enable, intercepted |-> FALSE,
                      driver |-> driver]
          /\ page' = driver
    /\ pc' = "input"
    /\ events' = <<Ev("input", <<"Press enter to proceed: ">>)>>
    /\ UNCHANGED <<enabled, save_solved_captchas, fs, ret, handler, wrap>>

\* the human leaves value in the verification-code field (if it can be typed into)
\* and presses enter: input() returns and solve runs to its end
SolveResume ==
    /\ pc = "input"
    /\ \E value \in Codes \cup {<<>>} :
          \E typed \in {IF page.input = "ok" THEN [page EXCEPT !.inputValue = value] ELSE page} :
             \E r \in {solve_manual(typed, fs, call.captcha_type)} :
                /\ Room(r.files)
                /\ page' = typed
                /\ fs' = r.files
                /\ ret' = r.result
    /\ pc' = "returned"
    /\ UNCHANGED <<enabled, save_solved_captchas, call, handler, wrap, events>>

\* cloudflare_turnstile(driver, debug_enabled)
CloudflareTurnstile ==
    /\ pc = "idle"
    /\ \E driver \in Drivers, intercepted \in BOOLEAN, solved \in Outcomes,
          message_shown \in BOOLEAN :
          /\ \E r \in {cloudflare_turnstile(intercepted, solved, message_shown)} :
                /\ ret' = r.result
                /\ events' = r.events
          /\ call' = [NoCall EXCEPT !.op = "cloudflare_turnstile", !.driver = driver,
                                      !.intercepted = intercepted]
          /\ page' = driver
    /\ pc' = "returned"
    /\ UNCHANGED <<enabled, save_solved_captchas, fs, handler, wrap>>

\* the caller takes the result; the solver is ready for the next call
Continue ==
    /\ pc = "returned"
    /\ pc' = "idle"
    /\ call' = NoCall
    /\ page' = NoPage
    /\ ret' = NoResult
    /\ handler' = NoHandler
    /\ wrap' = NoWrap
    /\ events' = <<>>
    /\ UNCHANGED <<enabled, save_solved_captchas, fs>>

Next ==
    \/ Solve
    \/ SolveBlock
    \/ SolveResume
    \/ CloudflareTurnstile
    \/ Continue

Spec == Init /\ [][Next]_vars

(***************************************************************************)
(* Properties.                                                             *)
(***************************************************************************)
Positions(evs, name) == {i \in 1..Len(evs) : evs[i].name = name}
CountEv(evs, name) == Cardinality(Positions(evs, name))

StatusTags == {"TIMEOUT", "NETWORK_ERROR", "API_ERROR", "UNKNOWN_ERROR", "SOLVED"}

\* the tag the wrapper is to give a solve exception of class cls
TagOf(cls) ==
    CASE cls = "TimeoutException" -> "TIMEOUT"
      [] cls = "NetworkException" -> "NETWORK_ERROR"
      [] cls = "ApiException" -> "API_ERROR"
      [] OTHER -> "UNKNOWN_ERROR"

SolveReturned == pc = "returned" /\ call.op = "solve"
Automatic == SolveReturned /\ (enabled \/ call.force_enable)
Manual == SolveReturned /\ ~(enabled \/ call.force_enable)
Url == OrElse(call.page_url, CurrentUrl)
Kind == Lower(OrElse(call.captcha_type, "recaptcha_v2"))
ImageMarkup == call.driver.img /\ call.driver.input /= "absent"
Succeeded == ret.raised = "" /\ ret.val.success
AnswerCode == wrap.solved.result.code

\* C1: whatever exception the solve operation raises inside _solve_captcha, the
\* wrapper returns (False, tag, exception) with the tag of the exception's kind
\* (UNKNOWN_ERROR for any other kind) and the exception object as third element.
C1_SolveExceptionMapped ==
    (wrap.called /\ wrap.solved.exc /= "") =>
        wrap.ret = Tuple3(FALSE, TagOf(wrap.solved.exc),
                          ExcMsg(wrap.solved.exc, wrap.solved.text))

\* C2 as stated: for every kind, Turnstile included, absent markup gives
\* success = False with a "not found" status naming the page URL, and no raise.
C2_NotFoundEveryKind ==
    /\ (Automatic /\ Kind = "normal_captcha" /\ ~ImageMarkup) =>
          ret = Returned(Tuple2(FALSE, "NO CAPTCHA FOUND IN: " \o Url))
    /\ (Automatic /\ Kind = "recaptcha_v2" /\ ~call.driver.sitekey) =>
          ret = Returned(Tuple2(FALSE, "NO RECAPTCHA_V2 FOUND IN: " \o Url))
    /\ (pc = "returned" /\ call.op = "cloudflare_turnstile" /\ ~call.intercepted) =>
          /\ ret.raised = ""
          /\ ret.val.tag \in {"tuple2", "tuple3"}
          /\ ~ret.val.success

\* C2 amended: with solving enabled or forced, for the image CAPTCHA and the
\* reCAPTCHA v2 kinds, absent markup makes the handler return
\* (False, "NO ... FOUND IN", page_url) and solve return (False, that status
\* followed by ": " and the page URL); nothing is raised, the Solving Service is
\* not called and no file is left at the temp path by the call.
C2_NotFoundWiredKinds ==
    /\ (Automatic /\ Kind = "normal_captcha" /\ ~ImageMarkup) =>
          /\ handler = [name |-> "normal_captcha", result |->
                           Returned(Tuple3(FALSE, "NO CAPTCHA FOUND IN", StrMsg(Url)))]
          /\ ret = Returned(Tuple2(FALSE, "NO CAPTCHA FOUND IN: " \o Url))
          /\ ~wrap.called /\ events = <<>>
    /\ (Automatic /\ Kind = "recaptcha_v2" /\ ~call.driver.sitekey) =>
          /\ handler = [name |-> "recaptcha_v2", result |->
                           Returned(Tuple3(FALSE, "NO RECAPTCHA_V2 FOUND IN", StrMsg(Url)))]
          /\ ret = Returned(Tuple2(FALSE, "NO RECAPTCHA_V2 FOUND IN: " \o Url))
          /\ ~wrap.called /\ events = <<>>

\* a reCAPTCHA v2 solve on a page that has the response field but no site key
C2_Witness ==
    /\ Automatic /\ Kind = "recaptcha_v2" /\ ~call.driver.sitekey /\ call.driver.response
    /\ call.page_url = "" /\ ret.val.status = "NO RECAPTCHA_V2 FOUND IN: https://current"

\* C3: with solving disabled and not forced, solve returns nothing while it is
\* blocked in input(), and after the acknowledgment it returns
\* (True, "Manually solved CAPTCHA") for every kind, archival setting and page.
C3_ManualAlwaysSucceeds ==
    /\ pc = "input" => (ret = NoResult /\ ~(enabled \/ call.force_enable))
    /\ Manual => ret = Returned(Tuple2(TRUE, "Manually solved CAPTCHA"))

\* a manual image-CAPTCHA solve with archival on, on a page with no challenge
C3_Witness ==
    /\ Manual /\ Kind = "normal_captcha" /\ save_solved_captchas
    /\ ~call.driver.img /\ call.driver.input = "absent"
    /\ ret.val.success

\* C4: after a successful image-CAPTCHA solve the temp file is gone; with
\* archival on {code}.jpeg is in the archive directory, with archival off no
\* file is at the archive location either.
C4_SolvedImageFiles ==
    (Automatic /\ handler.name = "normal_captcha" /\ Succeeded) =>
        /\ TempPath \notin fs
        /\ save_solved_captchas => ArchivePath(AnswerCode) \in fs
        /\ ~save_solved_captchas => Archived(fs) = {}

\* a successful image solve with archival on, archived under the code
C4_Witness ==
    /\ Automatic /\ handler.name = "normal_captcha" /\ Succeeded
    /\ save_solved_captchas /\ wrap.called /\ AnswerCode \in Codes
    /\ fs = {ArchivePath(AnswerCode)}

\* C5 as stated: enabled or forced, a kind that is neither recaptcha_v2 nor
\* normal_captcha gives (False, "") and no external call.
C5_UnknownKindEmptyStatus ==
    (Automatic /\ Kind \notin {"recaptcha_v2", "normal_captcha"}) =>
        /\ ret = Returned(Tuple2(FALSE, ""))
        /\ ~wrap.called /\ events = <<>>

\* C5 amended: enabled or forced, a kind that is neither recaptcha_v2 nor
\* normal_captcha (a missing kind counting as recaptcha_v2, letter case ignored)
\* gives (False, ": "), the empty status and the empty message joined by ": ",
\* with no call of the Solving Service, no handler run and the page untouched.
C5_UnknownKindNoOp ==
    (Automatic /\ Kind \notin {"recaptcha_v2", "normal_captcha"}) =>
        /\ ret = Returned(Tuple2(FALSE, ": "))
        /\ ~wrap.called /\ events = <<>> /\ handler = NoHandler
        /\ page = call.driver

\* a forced solve of kind "turnstile" with solving disabled
C5_Witness ==
    /\ Automatic /\ call.captcha_type = "turnstile" /\ ~enabled /\ call.force_enable
    /\ call.driver.sitekey /\ ret.val.status = ": "

\* C6: after a successful recaptcha-v2 solve the response field holds exactly
\* the code the Solving Service returned, whatever the code.
C6_ResponseFieldIsCode ==
    (Automatic /\ handler.name = "recaptcha_v2" /\ Succeeded) =>
        page.responseValue = AnswerCode

\* C7: the wrapper calls the apply-result operation exactly once, with the raw
\* result, when the solve operation returned, and before it returns; when the
\* solve operation raised it never calls it and the page is as it was.
C7_ApplyOnlyAfterSolve ==
    wrap.called =>
        /\ CountEv(wrap.events, "solve_callback") = 1
        /\ wrap.solved.exc = "" =>
              /\ CountEv(wrap.events, "result_callback") = 1
              /\ \A i \in Positions(wrap.events, "result_callback") :
                    /\ wrap.events[i].arg = AnswerCode
                    /\ \A j \in Positions(wrap.events, "solve_callback") : j < i
                    /\ \A j \in Positions(wrap.events, "return") : i < j
        /\ wrap.solved.exc /= "" =>
              /\ CountEv(wrap.events, "result_callback") = 0
              /\ CountEv(wrap.events, "send_keys") = 0
              /\ CountEv(wrap.events, "execute_script") = 0
              /\ wrap.page = wrap.before
              /\ page = call.driver
        /\ wrap.ret.success => CountEv(wrap.events, "result_callback") = 1

\* a solved reCAPTCHA whose result was applied once, before the wrapper returned
C7_Witness ==
    /\ wrap.called /\ wrap.solved.exc = "" /\ wrap.ret.success
    /\ handler.name = "recaptcha_v2"
    /\ CountEv(wrap.events, "result_callback") = 1
    /\ page.responseValue /= <<>>

\* C8: every return of the wrapper is a (success, status, payload) triple with
\* a status among the five tags and success exactly when the status is SOLVED.
C8_AlwaysTaggedTriple ==
    wrap.called =>
        /\ wrap.ret.tag = "tuple3"
        /\ wrap.ret.status \in StatusTags
        /\ wrap.ret.success <=> wrap.ret.status = "SOLVED"

\* C9: once normal_captcha has written the temp image, the file is not at the
\* temp path when normal_captcha finishes, whatever the outcome.
C9_TempFileNeverRemains ==
    (Automatic /\ handler.name = "normal_captcha" /\ ImageMarkup) => TempPath \notin fs

\* C10: cloudflare_turnstile never raises for a missing piece: with no
\* intercepted parameters it prints its diagnostic and the Solving Service is
\* not called, and the page callback is only invoked after the Solving
\* Service was called.
C10_TurnstileAbortsWithMessage ==
    (pc = "returned" /\ call.op = "cloudflare_turnstile") =>
        /\ \A i \in Positions(events, "cfCallback") :
              \E j \in Positions(events, "solver.turnstile") : j < i
        /\ ~call.intercepted =>
              /\ ret.raised = ""
              /\ CountEv(events, "solver.turnstile") = 0
              /\ CountEv(events, "print") >= 1

====
